---- MODULE Spec2Model ----
(***************************************************************************)
(* cargo-leptos, src/main.rs: the message bus, the SHUTDOWN flag, the      *)
(* ctrl-c task, the build pipelines (build_csr_or_ssr / build_client and   *)
(* build_all) and the watch loop.                                          *)
(*                                                                         *)
(* Two tasks are modelled: the main task (variable pc is its position) and *)
(* the ctrl-c task spawned at main.rs:90 (variable handlerPc).  The file   *)
(* watcher, the reload server's bus receivers and the compiled application *)
(* process live in modules run::watch, run::reload and run::cargo, which   *)
(* are outside src/main.rs; they appear as environment actions.            *)
(***************************************************************************)
EXTENDS Integers, Sequences, FiniteSets, TLC

\* ---------------------------------------------------------------- bounds
\* Largest number of build_csr_or_ssr runs one watch session starts.
MaxCycles == 2
\* Largest number of SrcChanged messages the file watcher sends.
MaxSrcChanged == 1
\* Largest number of bus receivers held by the reload server's connections.
MaxSubs == 1

\* broadcast::channel(10): messages a receiver may fall behind before
\* recv() reports RecvError::Lagged.
BusCapacity == 10

SubIds == 1..MaxSubs

VARIABLES
    cmd,        \* "Build" | "Watch": args.command
    csr,        \* config.cli.csr of the Config read at main.rs:88
    pc,         \* position of the main task
    calls,      \* collaborator invocations of the current pipeline run
    outcome,    \* "none" | "running" | "Ok" | "Err": current / last pipeline run
    builds,     \* build_csr_or_ssr runs started by the watch loop
    waits,      \* waits of the watch loop that have returned
    shutdown,   \* SHUTDOWN
    handlerPc,  \* position of the ctrl-c task
    sent,       \* every MSG_BUS.send call so far, in order
    rx,         \* position of the watch loop's receiver, -1 when it has none
                \* (a position is the number of sends made before the receiver)
    woke,       \* the message the last recv() of the watch loop returned
    subs,       \* position of each reload-server connection's receiver, -1 for none
    cloneCsr,   \* <<cli.csr>> of build_all's clone of Config, <<>> before the clone
    flagRead    \* <<value>> send_reload read from SHUTDOWN in this cycle, <<>> before

vars == <<cmd, csr, pc, calls, outcome, builds, waits, shutdown, handlerPc,
          sent, rx, woke, subs, cloneCsr, flagRead>>

mainVars == <<cmd, csr, pc, calls, outcome, builds, waits, rx, woke, cloneCsr,
              flagRead>>

\* ------------------------------------------------------------ positions
BuildingPcs == {"rm", "sass", "html_read", "wasm", "gen", "cargo_build"}
AllPcs == {"all_rm", "all_cargo", "all_sass", "all_html_read", "all_gen_html",
           "all_gen_rust", "all_clone", "all_csr_true", "all_wasm_csr",
           "all_csr_false", "all_wasm_hydrate"}
ExitPcs == {"Terminated", "Failed", "Done"}

\* main has returned: the runtime is dropped and the process exits.
Exited == pc \in ExitPcs

\* The state of the watch loop's state machine the main task is in.
Phase ==
    CASE pc \in BuildingPcs -> "Building"
      [] pc \in {"send_reload", "reload_send"} -> "Notifying"
      [] pc \in {"subscribe", "recv", "cargo_run", "app_running", "flag_check"} -> "AwaitingChangeOrExit"
      [] pc = "Terminated" -> "Terminated"
      [] pc = "Failed" -> "Failed"
      [] OTHER -> "Idle"

\* ------------------------------------------------------------------ bus
\* Receivers of MSG_BUS that are alive.
RxCount == (IF rx >= 0 THEN 1 ELSE 0) + Cardinality({s \in SubIds : subs[s] >= 0})

\* broadcast::Sender::send: Err(SendError) when no receiver is alive (the
\* message is handed back, nothing is queued), Ok(n) otherwise.
SendResult(n) == IF n = 0 THEN "Err" ELSE "Ok"

\* One MSG_BUS.send(m) call, with what the loop was doing when it was made.
Publish(m) ==
    sent' = Append(sent, [msg |-> m, res |-> SendResult(RxCount),
                          cycle |-> builds, phase |-> Phase])

Msgs(m) == {i \in 1..Len(sent) : sent[i].msg = m}

\* The messages delivered to a receiver made at position p, in order.
Queue(p) == [i \in 1..(Len(sent) - p) |-> sent[p + i].msg]

\* broadcast::Receiver::recv on a receiver at position p: Err(Lagged) when
\* more than the channel's capacity was sent since, else the next message.
RecvResult(p) == IF Len(sent) - p > BusCapacity THEN "Err" ELSE "Ok"

\* ----------------------------------------------------------------- Init
Init ==
    /\ cmd \in {"Build", "Watch"}
    /\ csr \in BOOLEAN
    /\ pc = "main"
    /\ calls = <<>>
    /\ outcome = "none"
    /\ builds = 0
    /\ waits = 0
    /\ shutdown = FALSE
    /\ handlerPc = "listening"
    /\ sent = <<>>
    /\ rx = -1
    /\ woke = "none"
    /\ subs = [s \in SubIds |-> -1]
    /\ cloneCsr = <<>>
    /\ flagRead = <<>>

\* ------------------------------------------------------- ctrl-c task
\* signal::ctrl_c().await returns.
CtrlC ==
    /\ handlerPc = "listening"
    /\ ~Exited
    /\ handlerPc' = "signalled"
    /\ UNCHANGED <<mainVars, shutdown, sent, subs>>

\* ShutDown is sent first, the flag is left for later.
HandlerSetFlag_AfterSend ==
    /\ handlerPc = "signalled"
    /\ ~Exited
    /\ Publish("ShutDown")
    /\ handlerPc' = "sent_first"
    /\ UNCHANGED <<mainVars, shutdown, subs>>

\* *SHUTDOWN.write().await = true
HandlerSetFlag ==
    /\ handlerPc = "signalled"
    /\ ~Exited
    /\ shutdown' = TRUE
    /\ handlerPc' = "flag_set"
    /\ UNCHANGED <<mainVars, sent, subs>>

\* ShutDown is sent only when somebody is listening.
HandlerSend_OnlyIfSubscribed ==
    /\ handlerPc = "flag_set"
    /\ IF RxCount > 0 THEN Publish("ShutDown") ELSE sent' = sent
    /\ handlerPc' = "done"
    /\ UNCHANGED <<mainVars, shutdown, subs>>

\* MSG_BUS.send(Msg::ShutDown).unwrap(): runs in the same poll as the write
\* of the flag; unwrap panics the task when send returned Err.
HandlerSend ==
    /\ handlerPc = "flag_set"
    /\ Publish("ShutDown")
    /\ handlerPc' = IF SendResult(RxCount) = "Ok" THEN "done" ELSE "panicked"
    /\ UNCHANGED <<mainVars, shutdown, subs>>

\* ------------------------------------------------------ pipeline steps
\* A collaborator's error is dropped instead of returned.
Propagate_Ignore(r, next) == next

\* The ? operator on a collaborator's result: an Err returns from the
\* enclosing function, an Ok goes on to the next statement.
Propagate(r, next) == IF r = "Err" THEN "err" ELSE next

\* The error of the build is dropped instead of returned.
AfterBuild_IgnoreErr(o) == "send_reload"

\* watch, lines 178-180: build_csr_or_ssr(config).await? and then
\* send_reload().await.
AfterBuild(o) == IF o = "Err" THEN "Failed" ELSE "send_reload"

\* Where a pipeline run that returned o hands control: the watch loop, or
\* main's return of build_all's result.
Return(o) ==
    IF cmd = "Watch" THEN AfterBuild(o)
    ELSE IF o = "Err" THEN "Failed" ELSE "Done"

\* One collaborator call `name(&config)?` with cli.csr = c, followed by the
\* statement at `next` ("ret" for the function's final Ok(())).
Stage(name, c, next) ==
    \E r \in {"Ok", "Err"} :
        /\ calls' = Append(calls, [stage |-> name, csr |-> c, res |-> r])
        /\ LET to == Propagate(r, next) IN
           IF to = "err" THEN outcome' = "Err" /\ pc' = Return("Err")
           ELSE IF to = "ret" THEN outcome' = "Ok" /\ pc' = Return("Ok")
           ELSE outcome' = outcome /\ pc' = to

\* The server is compiled in csr mode too.
AfterClient_Always(c) == "cargo_build"

\* build_csr_or_ssr, lines 117-120: the server is compiled unless csr.
AfterClient(c) == IF ~c THEN "cargo_build" ELSE "ret"

\* build_client, lines 127-133: the artifact generated after the bundle.
Generated(c) == IF c THEN "generate_html" ELSE "generate_rust"

\* ------------------------------------------------------------ main task
\* main, lines 97-103: dispatch on the subcommand.
Main ==
    /\ pc = "main"
    /\ IF cmd = "Build"
       THEN pc' = "all_rm" /\ outcome' = "running"
       ELSE pc' = "watch_spawn" /\ outcome' = outcome
    /\ UNCHANGED <<cmd, csr, calls, builds, waits, rx, woke, cloneCsr,
                   flagRead, shutdown, handlerPc, sent, subs>>

\* watch, lines 167-175: spawn the file watcher (and the dev server in csr
\* mode), then reload::run(&config).await?
WatchSpawn ==
    /\ pc = "watch_spawn"
    /\ \E r \in {"Ok", "Err"} :
          pc' = IF Propagate(r, "loop") = "err" THEN "Failed" ELSE "loop"
    /\ UNCHANGED <<cmd, csr, calls, outcome, builds, waits, rx, woke, cloneCsr,
                   flagRead, shutdown, handlerPc, sent, subs>>

\* watch, line 178: the loop calls build_csr_or_ssr.
BuildCsrOrSsr ==
    /\ pc = "loop"
    /\ builds' = builds + 1
    /\ calls' = <<>>
    /\ outcome' = "running"
    /\ flagRead' = <<>>
    /\ pc' = "rm"
    /\ UNCHANGED <<cmd, csr, waits, rx, woke, cloneCsr,
                   shutdown, handlerPc, sent, subs>>

pipeFrame == <<cmd, csr, builds, waits, rx, woke, cloneCsr, flagRead,
               shutdown, handlerPc, sent, subs>>

\* build_csr_or_ssr, line 114
RmDirContent ==
    /\ pc = "rm"
    /\ Stage("rm_dir_content", csr, "sass")
    /\ UNCHANGED pipeFrame

\* build_client, line 123
SassRun ==
    /\ pc = "sass"
    /\ Stage("sass_run", csr, "html_read")
    /\ UNCHANGED pipeFrame

\* build_client, line 125
HtmlRead ==
    /\ pc = "html_read"
    /\ Stage("html_read", csr, "wasm")
    /\ UNCHANGED pipeFrame

\* build_client, lines 128 and 131
WasmPackBuild ==
    /\ pc = "wasm"
    /\ Stage("wasm_pack_build", csr, "gen")
    /\ UNCHANGED pipeFrame

\* build_client, lines 129 and 132, and the return to build_csr_or_ssr
HtmlGenerate ==
    /\ pc = "gen"
    /\ Stage(Generated(csr), csr, AfterClient(csr))
    /\ UNCHANGED pipeFrame

\* build_csr_or_ssr, line 118
CargoBuild ==
    /\ pc = "cargo_build"
    /\ Stage("cargo_build", csr, "ret")
    /\ UNCHANGED pipeFrame

\* ------------------------------------------------------------ build_all
\* build_all, line 138
AllRmDirContent ==
    /\ pc = "all_rm"
    /\ Stage("rm_dir_content", csr, "all_cargo")
    /\ UNCHANGED pipeFrame

\* build_all, line 140
AllCargoBuild ==
    /\ pc = "all_cargo"
    /\ Stage("cargo_build", csr, "all_sass")
    /\ UNCHANGED pipeFrame

\* build_all, line 141
AllSassRun ==
    /\ pc = "all_sass"
    /\ Stage("sass_run", csr, "all_html_read")
    /\ UNCHANGED pipeFrame

\* build_all, line 143
AllHtmlRead ==
    /\ pc = "all_html_read"
    /\ Stage("html_read", csr, "all_gen_html")
    /\ UNCHANGED pipeFrame

\* build_all, line 145
AllGenerateHtml ==
    /\ pc = "all_gen_html"
    /\ Stage("generate_html", csr, "all_gen_rust")
    /\ UNCHANGED pipeFrame

\* build_all, line 146
AllGenerateRust ==
    /\ pc = "all_gen_rust"
    /\ Stage("generate_rust", csr, "all_clone")
    /\ UNCHANGED pipeFrame

\* build_all, line 148: let mut config = config.clone()
AllClone ==
    /\ pc = "all_clone"
    /\ cloneCsr' = <<csr>>
    /\ pc' = "all_csr_true"
    /\ UNCHANGED <<cmd, csr, calls, outcome, builds, waits, rx, woke, flagRead,
                   shutdown, handlerPc, sent, subs>>

\* csr is set on the caller's Config instead of the clone.
AllSetCsrTrue_OnOriginal ==
    /\ pc = "all_csr_true"
    /\ csr' = TRUE
    /\ pc' = "all_wasm_csr"
    /\ UNCHANGED <<cmd, cloneCsr, calls, outcome, builds, waits, rx, woke, flagRead,
                   shutdown, handlerPc, sent, subs>>

\* build_all, line 150: config.cli.csr = true (on the clone)
AllSetCsrTrue ==
    /\ pc = "all_csr_true"
    /\ cloneCsr' = <<TRUE>>
    /\ pc' = "all_wasm_csr"
    /\ UNCHANGED <<cmd, csr, calls, outcome, builds, waits, rx, woke, flagRead,
                   shutdown, handlerPc, sent, subs>>

\* build_all, line 151
AllWasmCsr ==
    /\ pc = "all_wasm_csr"
    /\ Stage("wasm_pack_build", cloneCsr[1], "all_csr_false")
    /\ UNCHANGED pipeFrame

\* build_all, line 152: config.cli.csr = false (on the clone)
AllSetCsrFalse ==
    /\ pc = "all_csr_false"
    /\ cloneCsr' = <<FALSE>>
    /\ pc' = "all_wasm_hydrate"
    /\ UNCHANGED <<cmd, csr, calls, outcome, builds, waits, rx, woke, flagRead,
                   shutdown, handlerPc, sent, subs>>

\* build_all, lines 153-154
AllWasmHydrate ==
    /\ pc = "all_wasm_hydrate"
    /\ Stage("wasm_pack_build", cloneCsr[1], "ret")
    /\ UNCHANGED pipeFrame

\* ----------------------------------------------------------- watch loop
\* The loop goes round without waiting.
AfterReload_NoWait(c) == "flag_check"

\* watch, lines 181-185: the wait that follows send_reload.
AfterReload(c) == IF c THEN "subscribe" ELSE "cargo_run"

\* The condition is taken the wrong way round.
ReloadGuard_Inverted(f) == f

\* The reload is sent whatever the flag says.
ReloadGuard_Always(f) == TRUE

\* send_reload, line 107: the condition on the value read from SHUTDOWN.
ReloadGuard(f) == ~f

\* send_reload, line 107: read SHUTDOWN; the read guard is dropped when the
\* condition has been evaluated.
SendReloadRead ==
    /\ pc = "send_reload"
    /\ flagRead' = <<shutdown>>
    /\ pc' = IF ReloadGuard(shutdown) THEN "reload_send" ELSE AfterReload(csr)
    /\ UNCHANGED <<cmd, csr, calls, outcome, builds, waits, rx, woke, cloneCsr,
                   shutdown, handlerPc, sent, subs>>

\* send_reload, lines 108-110: an Err of send is logged and dropped.
SendReloadSend ==
    /\ pc = "reload_send"
    /\ Publish("Reload")
    /\ pc' = AfterReload(csr)
    /\ UNCHANGED <<cmd, csr, calls, outcome, builds, waits, rx, woke, cloneCsr,
                   flagRead, shutdown, handlerPc, subs>>

\* The new receiver is handed what the bus has carried so far.
WaitSubscribe_Replay ==
    /\ pc = "subscribe"
    /\ rx' = 0
    /\ pc' = "recv"
    /\ UNCHANGED <<cmd, csr, calls, outcome, builds, waits, woke, cloneCsr,
                   flagRead, shutdown, handlerPc, sent, subs>>

\* The receiver exists before the last send on the bus.
WaitSubscribe_SeesLast ==
    /\ pc = "subscribe"
    /\ rx' = IF Len(sent) > 0 THEN Len(sent) - 1 ELSE 0
    /\ pc' = "recv"
    /\ UNCHANGED <<cmd, csr, calls, outcome, builds, waits, woke, cloneCsr,
                   flagRead, shutdown, handlerPc, sent, subs>>

\* watch, line 182: MSG_BUS.subscribe() makes a receiver that sees what is
\* sent from now on.
WaitSubscribe ==
    /\ pc = "subscribe"
    /\ rx' = Len(sent)
    /\ pc' = "recv"
    /\ UNCHANGED <<cmd, csr, calls, outcome, builds, waits, woke, cloneCsr,
                   flagRead, shutdown, handlerPc, sent, subs>>

\* watch, line 182: .recv().await? returns once a message was sent to the
\* receiver; the temporary receiver is dropped with the statement.
WaitRecv ==
    /\ pc = "recv"
    /\ Len(sent) > rx
    /\ woke' = IF RecvResult(rx) = "Ok" THEN Head(Queue(rx)) ELSE "Lagged"
    /\ pc' = IF Propagate(RecvResult(rx), "flag_check") = "err"
             THEN "Failed" ELSE "flag_check"
    /\ rx' = -1
    /\ waits' = waits + 1
    /\ UNCHANGED <<cmd, csr, calls, outcome, builds, cloneCsr, flagRead,
                   shutdown, handlerPc, sent, subs>>

\* watch, line 184: cargo::run(&config) starts the compiled application.
CargoRun ==
    /\ pc = "cargo_run"
    /\ pc' = "app_running"
    /\ UNCHANGED <<cmd, csr, calls, outcome, builds, waits, rx, woke, cloneCsr,
                   flagRead, shutdown, handlerPc, sent, subs>>

\* watch, line 184: .await? returns when the application process has exited.
CargoRunExit ==
    /\ pc = "app_running"
    /\ \E r \in {"Ok", "Err"} :
          pc' = IF Propagate(r, "flag_check") = "err" THEN "Failed" ELSE "flag_check"
    /\ waits' = waits + 1
    /\ UNCHANGED <<cmd, csr, calls, outcome, builds, rx, woke, cloneCsr,
                   flagRead, shutdown, handlerPc, sent, subs>>

\* The loop clears the flag when it has read it.
FlagCheck_ClearsFlag ==
    /\ pc = "flag_check"
    /\ shutdown \/ builds < MaxCycles
    /\ pc' = IF shutdown THEN "Terminated" ELSE "loop"
    /\ shutdown' = FALSE
    /\ UNCHANGED <<cmd, csr, calls, outcome, builds, waits, rx, woke, cloneCsr,
                   flagRead, handlerPc, sent, subs>>

\* The loop goes round whatever the flag says.
FlagCheck_NeverBreaks ==
    /\ pc = "flag_check"
    /\ builds < MaxCycles
    /\ pc' = "loop"
    /\ UNCHANGED <<cmd, csr, calls, outcome, builds, waits, rx, woke, cloneCsr,
                   flagRead, shutdown, handlerPc, sent, subs>>

\* watch, lines 186-190: break and return Ok(()) when SHUTDOWN is set, else
\* go round the loop (at most MaxCycles times here).
FlagCheck ==
    /\ pc = "flag_check"
    /\ shutdown \/ builds < MaxCycles
    /\ pc' = IF shutdown THEN "Terminated" ELSE "loop"
    /\ UNCHANGED <<cmd, csr, calls, outcome, builds, waits, rx, woke, cloneCsr,
                   flagRead, shutdown, handlerPc, sent, subs>>

\* ---------------------------------------------------------- environment
\* The tasks watch spawned are running.
Spawned == cmd = "Watch" /\ pc \notin {"main", "watch_spawn"} /\ ~Exited

\* run::watch: the file watcher sends SrcChanged on a change of the sources.
FileWatcherSend ==
    /\ Spawned
    /\ Cardinality(Msgs("SrcChanged")) < MaxSrcChanged
    /\ Publish("SrcChanged")
    /\ UNCHANGED <<mainVars, shutdown, handlerPc, subs>>

\* run::reload: a browser connection subscribes to the bus.
SubConnect(s) ==
    /\ Spawned
    /\ subs[s] = -1
    /\ subs' = [subs EXCEPT ![s] = Len(sent)]
    /\ UNCHANGED <<mainVars, shutdown, handlerPc, sent>>

\* run::reload: a connection closes and drops its receiver.
SubDisconnect(s) ==
    /\ ~Exited
    /\ subs[s] >= 0
    /\ subs' = [subs EXCEPT ![s] = -1]
    /\ UNCHANGED <<mainVars, shutdown, handlerPc, sent>>

\* -------------------------------------------------------- specification
Pipeline ==
    \/ RmDirContent \/ SassRun \/ HtmlRead \/ WasmPackBuild \/ HtmlGenerate
    \/ CargoBuild

BuildAll ==
    \/ AllRmDirContent \/ AllCargoBuild \/ AllSassRun \/ AllHtmlRead
    \/ AllGenerateHtml \/ AllGenerateRust \/ AllClone \/ AllSetCsrTrue
    \/ AllWasmCsr \/ AllSetCsrFalse \/ AllWasmHydrate

WatchLoop ==
    \/ BuildCsrOrSsr \/ Pipeline \/ SendReloadRead \/ SendReloadSend
    \/ WaitSubscribe \/ WaitRecv \/ CargoRun \/ FlagCheck

MainTask == Main \/ WatchSpawn \/ WatchLoop \/ BuildAll

Handler == HandlerSetFlag \/ HandlerSend

Environment ==
    \/ CtrlC
    \/ FileWatcherSend
    \/ CargoRunExit
    \/ \E s \in SubIds : SubConnect(s) \/ SubDisconnect(s)

Next == MainTask \/ Handler \/ Environment

Spec == Init /\ [][Next]_vars

\* The runtime keeps polling a task that can run: the main task and the
\* ctrl-c task take their next step.  The application of hydrate mode is
\* taken to exit; no message of the file watcher and no interrupt is
\* promised.
FairSpec ==
    /\ Spec
    /\ WF_vars(MainTask)
    /\ WF_vars(Handler)
    /\ WF_vars(CargoRunExit)

\* ================================================================ claims
InBuild == pc \in BuildingPcs

\* The step appends a Reload to the bus log.
NewReload ==
    /\ Len(sent') = Len(sent) + 1
    /\ sent'[Len(sent')].msg = "Reload"

\* Reload sends made in the current cycle of the watch loop.
CycleReloads == {i \in Msgs("Reload") : sent[i].cycle = builds}

\* Calls of collaborator `name` in the current pipeline run.
Calls(name) == {i \in 1..Len(calls) : calls[i].stage = name}

\* A collaborator of the current pipeline run returned Err.
FailedRun == \E i \in 1..Len(calls) : calls[i].res = "Err"

\* C1: in the watch loop every Reload sent by send_reload comes straight
\* after a build_csr_or_ssr run of the same cycle that returned Ok (all of
\* its collaborators returned Ok), and no Reload is sent once a run has
\* returned an error.
C1_ReloadOnlyAfterOk ==
    [][NewReload =>
          /\ pc = "reload_send"
          /\ outcome = "Ok"
          /\ ~FailedRun
          /\ sent'[Len(sent')].cycle = builds]_vars

C1_Witness ==
    /\ \E i \in Msgs("Reload") : sent[i].cycle = 2
    /\ \E i \in Msgs("Reload") : sent[i].cycle = 1

\* C4: one pipeline run at a time in a watch session.  A build starts only
\* when no run is in flight and the wait of every earlier cycle has returned,
\* and a message sent on the bus during Building leaves the run where it is
\* (same position, same calls made, same run).
C4_OneBuildAtATime ==
    [][/\ builds' # builds =>
             /\ builds' = builds + 1
             /\ waits = builds
             /\ outcome # "running"
             /\ ~InBuild
             /\ calls' = <<>>
       /\ (InBuild /\ sent' # sent) => UNCHANGED <<pc, calls, builds, outcome>>
       /\ InBuild => (outcome = "running" /\ builds = waits + 1)]_vars

C4_Witness ==
    /\ InBuild
    /\ builds = 2
    /\ Len(calls) >= 2
    /\ \E i \in 1..Len(sent) : sent[i].cycle = 2 /\ sent[i].phase = "Building"

\* What holds once a collaborator of a watch-loop build has failed: it is
\* the last call of the run, the loop has returned the error, no Reload was
\* sent for the cycle, the wait of the cycle was not entered.
FatalFailure ==
    /\ calls[Len(calls)].res = "Err"
    /\ \A i \in 1..(Len(calls) - 1) : calls[i].res = "Ok"
    /\ outcome = "Err"
    /\ pc = "Failed"
    /\ CycleReloads = {}
    /\ waits = builds - 1
    /\ rx = -1

\* C7: a failure of any stage of a watch-loop build is fatal to the watch
\* session: the loop returns the error, no later stage of the run is called,
\* no Reload is sent, the wait is not entered, and no build starts again.
C7_BuildFailureFatal ==
    [][/\ (cmd = "Watch" /\ FailedRun') => FatalFailure'
       /\ (cmd = "Watch" /\ FailedRun) =>
             (~NewReload /\ UNCHANGED <<pc, calls, outcome, builds, waits, rx>>)]_vars

C7_Witness ==
    /\ cmd = "Watch"
    /\ pc = "Failed"
    /\ builds = 2
    /\ Len(calls) = 3
    /\ calls[3].res = "Err"
    /\ Msgs("SrcChanged") # {}

\* C8: a watch-loop build that returned Ok has called the client bundler
\* (wasm_pack::build) exactly once, and the server compiler (cargo::build)
\* not at all when csr and exactly once when not csr.
C8_BundleAndServerCounts ==
    (cmd = "Watch" /\ outcome = "Ok") =>
        /\ Cardinality(Calls("wasm_pack_build")) = 1
        /\ Cardinality(Calls("cargo_build")) = IF csr THEN 0 ELSE 1

C8_Witness ==
    /\ cmd = "Watch"
    /\ outcome = "Ok"
    /\ builds = 2
    /\ csr
    /\ pc = "recv"

\* The loop is about to enter the wait of the cycle.
WaitEntry == pc \in {"subscribe", "cargo_run"}

\* The watch loop has returned.
LoopReturned == pc \in {"Terminated", "Failed"}

\* C2: once SHUTDOWN is set in a watch session the watch loop returns,
\* with no message having to be sent by anybody else.  (A loop that returns
\* the error of a failed stage counts as returned here.)
C2_ShutdownTerminates == (cmd = "Watch" /\ shutdown) ~> LoopReturned

\* A SrcChanged was sent during the Building phase of the current cycle.
SrcChangedDuringBuild ==
    \E i \in Msgs("SrcChanged") : sent[i].cycle = builds /\ sent[i].phase = "Building"

\* C3: in csr mode a SrcChanged sent during Building is seen by the wait
\* that follows: the receiver of that wait has a message to return, so the
\* wait returns without another message being sent.
C3_SrcChangedNotLost ==
    (csr /\ pc = "recv" /\ SrcChangedDuringBuild) => Len(sent) > rx

\* C5 as claimed: when the loop enters the wait after a successful build,
\* exactly one Reload has been sent in the cycle.
C5_ExactlyOneReload == WaitEntry => Cardinality(CycleReloads) = 1

\* C5: when the loop enters the wait after a successful build, send_reload
\* has made exactly one Reload send in the cycle if it read SHUTDOWN as
\* false, and none if it read SHUTDOWN as true.
C5_ReloadUnlessShutdown ==
    WaitEntry =>
        /\ outcome = "Ok"
        /\ flagRead # <<>>
        /\ Cardinality(CycleReloads) = IF flagRead[1] THEN 0 ELSE 1
        /\ flagRead[1] => shutdown

C5_Witness ==
    /\ WaitEntry
    /\ builds = 2
    /\ flagRead = <<TRUE>>
    /\ CycleReloads = {}
    /\ \E i \in Msgs("Reload") : sent[i].cycle = 1

\* The run is one of build_csr_or_ssr or build_all and its style compiler
\* (sass::run) returned Err.
StyleFailed == \E i \in Calls("sass_run") : calls[i].res = "Err"

\* C6: a pipeline run whose style compiler failed returns failure without
\* having called the client bundler or the server compiler, in
\* build_csr_or_ssr and in build_all, csr or not.
C6_StyleFailureShortCircuits ==
    StyleFailed =>
        /\ outcome = "Err"
        /\ Calls("wasm_pack_build") = {}
        /\ Calls("cargo_build") = {}

\* The place of a stage in the order C9 claims; 0 for a call that is none of
\* the five stages (the generated artifacts).
Rank(st) ==
    CASE st = "rm_dir_content" -> 1
      [] st = "sass_run" -> 2
      [] st = "html_read" -> 3
      [] st = "wasm_pack_build" -> 4
      [] st = "cargo_build" -> 5
      [] OTHER -> 0

\* C9: every pipeline run (build_csr_or_ssr and build_all) calls its stages
\* in the order clear, styles, template, bundle, server; the output directory
\* is cleared first and the server is compiled only when not csr.
C9_StageOrder ==
    /\ Len(calls) > 0 => calls[1].stage = "rm_dir_content"
    /\ \A i, j \in 1..Len(calls) :
          (i < j /\ Rank(calls[i].stage) > 0 /\ Rank(calls[j].stage) > 0)
             => Rank(calls[i].stage) <= Rank(calls[j].stage)
    /\ Calls("cargo_build") # {} => ~csr

\* The ctrl-c task has run to its end (returned, or panicked in unwrap).
HandlerFinished == handlerPc \in {"done", "panicked"}

\* C10: the ctrl-c task, once past the interrupt, has set SHUTDOWN and,
\* when it has finished, has made its MSG_BUS.send(ShutDown) call, whatever
\* the main task was doing and whether or not a receiver was alive.
C10_HandlerSetsAndSends ==
    /\ handlerPc \in {"flag_set", "done", "panicked"} => shutdown
    /\ HandlerFinished => Cardinality(Msgs("ShutDown")) = 1

C10_Witness ==
    /\ HandlerFinished
    /\ RxCount = 0
    /\ InBuild
    /\ \E i \in Msgs("ShutDown") : sent[i].res = "Err" /\ sent[i].phase = "Building"

\* C11: a send on the bus with no receiver alive is not an error: every
\* ShutDown sent by the ctrl-c task and every Reload sent by send_reload
\* returns Ok to its sender, and the sender's task goes on (the ctrl-c task
\* does not panic).
C11_SendWithoutReceiversOk ==
    /\ \A i \in Msgs("ShutDown") \cup Msgs("Reload") : sent[i].res = "Ok"
    /\ handlerPc # "panicked"

QueueAfter(p) == [i \in 1..(Len(sent') - p) |-> sent'[p + i].msg]

\* The step makes one send on the bus.
OneSend == Len(sent') = Len(sent) + 1 /\ SubSeq(sent', 1, Len(sent)) = sent

WasmCsr == SelectSeq(calls, LAMBDA c : c.stage = "wasm_pack_build")

\* C14: build_all toggles csr on its clone only.  Every collaborator called
\* with the caller's Config saw the csr the caller's Config still has; the
\* clone exists from the clone statement on and ends with csr = false; the
\* bundler is called with the clone, first with csr = true, then with
\* csr = false, at most once each.
C14_CsrToggledOnCloneOnly ==
    cmd = "Build" =>
        /\ \A i \in 1..Len(calls) :
              calls[i].stage # "wasm_pack_build" => calls[i].csr = csr
        /\ Len(WasmCsr) <= 2
        /\ Len(WasmCsr) >= 1 => WasmCsr[1].csr = TRUE
        /\ Len(WasmCsr) = 2 => (WasmCsr[2].csr = FALSE /\ WasmCsr[1].res = "Ok")
        /\ pc = "all_csr_true" => cloneCsr = <<csr>>
        /\ pc = "Done" => (cloneCsr = <<FALSE>> /\ Len(WasmCsr) = 2)
        /\ cloneCsr = <<>> => Len(WasmCsr) = 0

C14_Witness ==
    /\ cmd = "Build"
    /\ pc = "Done"
    /\ csr = TRUE
    /\ cloneCsr = <<FALSE>>
    /\ Len(WasmCsr) = 2

\* C15: SHUTDOWN is monotonic.  It is false until the ctrl-c task writes it;
\* the only step that changes it is that task's write, which makes it true;
\* once true it stays true.
C15_ShutdownMonotonic ==
    [][/\ handlerPc \in {"listening", "signalled"} => ~shutdown
       /\ shutdown => shutdown'
       /\ shutdown' # shutdown =>
             /\ handlerPc = "signalled"
             /\ handlerPc' = "flag_set"
             /\ shutdown' = TRUE]_vars

\* The flag was set in the first cycle and is still set in the second.
C15_Witness ==
    /\ shutdown
    /\ builds = 2
    /\ InBuild
    /\ \E i \in Msgs("ShutDown") : sent[i].cycle = 1

\* C16: the ctrl-c task sets SHUTDOWN before it sends ShutDown: whenever a
\* ShutDown has been sent (so also whenever one sits in a receiver's queue or
\* was returned by recv()) the flag is set; and in csr mode a wait that
\* recv() ended with ShutDown is followed by the flag check and Terminated,
\* never by another build.
C16_FlagSetBeforeShutDownSent ==
    /\ Msgs("ShutDown") # {} => shutdown
    /\ woke = "ShutDown" =>
          /\ csr
          /\ shutdown
          /\ pc \in {"flag_check", "Terminated"}
          /\ waits = builds

C16_Witness ==
    /\ csr
    /\ woke = "ShutDown"
    /\ pc = "Terminated"
    /\ builds = 2

\* Reload sends made after the ctrl-c task's ShutDown send (so with the flag
\* already set).
ReloadsAfterShutDown ==
    {j \in Msgs("Reload") : \E i \in Msgs("ShutDown") : i < j}

\* C17 as claimed: no Reload is sent on the bus once SHUTDOWN is true.
C17_NoReloadOnceFlagSet == [][NewReload => ~shutdown]_vars

\* C17: send_reload sends a Reload only after it has read SHUTDOWN as false
\* in the same cycle, and never after it has read true.  The read and the
\* send are two steps: the write of the flag can fall between them, and then
\* that one Reload is sent with the flag set; no further one follows.
C17_ReloadOnlyAfterReadingFalse ==
    /\ pc = "reload_send" => flagRead = <<FALSE>>
    /\ CycleReloads # {} => flagRead = <<FALSE>>
    /\ flagRead = <<TRUE>> => shutdown
    /\ Cardinality(ReloadsAfterShutDown) <= 1

C17_Witness ==
    /\ ReloadsAfterShutDown # {}
    /\ flagRead = <<FALSE>>
    /\ shutdown
    /\ handlerPc \in {"done", "panicked"}

\* Sends on the bus made by a task other than the watch loop.
OtherEvents == {i \in 1..Len(sent) : sent[i].msg # "Reload"}

\* Sends of another task made in the wait of cycle n.
OtherEventsInWait(n) ==
    {i \in OtherEvents : sent[i].cycle = n /\ sent[i].phase = "AwaitingChangeOrExit"}

\* C18: in a csr watch session the loop's wait never receives the loop's own
\* Reload: all that is pending on the wait's receiver was sent by another
\* task in this wait, every wait that has ended had such a send, the loop
\* has started at most one build more than there were sends by other tasks,
\* and with no such send it has started at most one build and has not left
\* the wait.
C18_NoSelfTrigger ==
    (cmd = "Watch" /\ csr) =>
        /\ woke # "Reload"
        /\ pc = "recv" =>
              \A i \in (rx + 1)..Len(sent) : i \in OtherEventsInWait(builds)
        /\ \A n \in 1..waits : OtherEventsInWait(n) # {}
        /\ builds <= 1 + waits
        /\ waits <= Cardinality(OtherEvents)
        /\ builds <= 1 + Cardinality(OtherEvents)
        /\ OtherEvents = {} =>
              /\ builds <= 1
              /\ waits = 0
              /\ pc \notin {"flag_check", "Terminated"}
              /\ pc = "loop" => builds = 0

C18_Witness ==
    /\ cmd = "Watch"
    /\ csr
    /\ builds = 2
    /\ woke = "SrcChanged"
    /\ pc = "recv"
    /\ Len(sent) = rx
    /\ \E i, j \in Msgs("Reload") : sent[i].cycle = 1 /\ sent[j].cycle = 2
    /\ Cardinality(OtherEvents) = 1

====
